---------------------------- MODULE Spec2Model ----------------------------
(***************************************************************************)
(* Model of the TCP key-value server of src/server2.c (SET/GET/DEL, one    *)
(* request per connection, one file per key, SIGINT shutdown), and of its  *)
(* earlier variant src/servidor.c.                                         *)
(*                                                                         *)
(* Bytes are one-character strings; buffers, tokens, file contents and     *)
(* responses are sequences of bytes.  The file system of the working       *)
(* directory is a function from file names (keys) to contents.             *)
(***************************************************************************)
EXTENDS Integers, Sequences, FiniteSets, TLC

(***************************************************************************)
(* Program constants.                                                      *)
(***************************************************************************)
BUFFER_SIZE == 1024
CMD_WIDTH == 9
KEY_WIDTH == 99
VALUE_WIDTH == 1023

(***************************************************************************)
(* Bounds of the model.                                                    *)
(***************************************************************************)
\* connections the environment opens in one run
MaxConns == 4
\* bytes of a key token beyond the '/' that follows its first KEY_WIDTH bytes
MaxExcess == 1
\* bytes a partial write() may leave unwritten
MaxShort == 1
\* bytes of the longest buffer write_all is given on its own
MaxLen == 4
\* bytes of the longest short file, and bytes by which the lengths of the
\* long files go beyond BUFFER_SIZE
MaxSmall == 4
MaxOver == 2

(***************************************************************************)
(* Byte-string helpers.                                                    *)
(***************************************************************************)
Min(a, b) == IF a < b THEN a ELSE b

Take(s, n) == SubSeq(s, 1, Min(n, Len(s)))

Drop(s, n) == SubSeq(s, Min(n, Len(s)) + 1, Len(s))

Rep(c, n) == [i \in 1..n |-> c]

\* length of the longest prefix of s, from position i on, whose bytes are all
\* in set (inside = TRUE) or all outside it (inside = FALSE)
RECURSIVE SpanFrom(_, _, _, _)
SpanFrom(s, i, set, inside) ==
    IF i > Len(s) \/ (s[i] \in set) # inside THEN i - 1
    ELSE SpanFrom(s, i + 1, set, inside)

SpanIn(s, set) == SpanFrom(s, 1, set, TRUE)

SpanOut(s, set) == SpanFrom(s, 1, set, FALSE)

\* the bytes 0 and 11, which have no string escape
NUL == "NUL"

VT == "VT"

\* isspace() in the C locale
WhiteSpace == {" ", "\t", "\n", "\r", "\f", VT}

\* a char array read as a C string: the bytes before the first NUL
CStr(s) ==
    LET nuls == {i \in 1..Len(s) : s[i] = NUL}
    IN  IF nuls = {} THEN s
        ELSE Take(s, (CHOOSE i \in nuls : \A j \in nuls : i <= j) - 1)

SkipSpace(s) == Drop(s, SpanIn(s, WhiteSpace))

\* snprintf(dst, cap, ...): at most cap-1 bytes of the formatted text are kept
snprintf(cap, text) == Take(text, cap - 1)

(***************************************************************************)
(* Response texts.                                                         *)
(***************************************************************************)
MSG_CLAVE_INVALIDA ==
    <<"E", "R", "R", "O", "R", ":", " ", "C", "l", "a", "v", "e", " ",
      "i", "n", "v", "a", "l", "i", "d", "a", "\n">>

MSG_NO_SE_PUDO_CREAR ==
    <<"E", "R", "R", "O", "R", ":", " ", "N", "o", " ", "s", "e", " ",
      "p", "u", "d", "o", " ", "c", "r", "e", "a", "r", "\n">>

MSG_OK == <<"O", "K", "\n">>

MSG_NOTFOUND == <<"N", "O", "T", "F", "O", "U", "N", "D", "\n">>

MSG_COMANDO_INVALIDO ==
    <<"E", "R", "R", "O", "R", ":", " ", "C", "o", "m", "a", "n", "d", "o", " ",
      "i", "n", "v", "a", "l", "i", "d", "o", "\n">>

MSG_FALTA_CLAVE ==
    <<"E", "R", "R", "O", "R", ":", " ", "F", "a", "l", "t", "a", " ",
      "c", "l", "a", "v", "e", "\n">>

MSG_FALTA_VALOR ==
    <<"E", "R", "R", "O", "R", ":", " ", "F", "a", "l", "t", "a", " ",
      "v", "a", "l", "o", "r", "\n">>

MSG_FORMATO_INVALIDO ==
    <<"E", "R", "R", "O", "R", ":", " ", "F", "o", "r", "m", "a", "t", "o", " ",
      "i", "n", "v", "a", "l", "i", "d", "o", "\n">>

(***************************************************************************)
(* clave_valida: a key is usable as a file name.                           *)
(***************************************************************************)
\* clave_valida without the test for '.'
clave_valida_AllowsDot(clave) ==
    /\ clave # <<>>
    /\ \A i \in 1..Len(clave) : clave[i] \notin {"/", "\\", " "}

clave_valida(clave) ==
    /\ clave # <<>>
    /\ \A i \in 1..Len(clave) : clave[i] \notin {"/", "\\", ".", " "}

(***************************************************************************)
(* Parsing.                                                                *)
(***************************************************************************)
SET == <<"S", "E", "T">>
GET == <<"G", "E", "T">>
DEL == <<"D", "E", "L">>

parse_cmd(cmd_str) ==
    IF cmd_str = SET THEN "CMD_SET"
    ELSE IF cmd_str = GET THEN "CMD_GET"
    ELSE IF cmd_str = DEL THEN "CMD_DEL"
    ELSE "CMD_INVALID"

\* sscanf with the value read as a third token ("%1023s")
sscanf_ValueToken(buffer) ==
    LET in0 == SkipSpace(CStr(buffer))
        n1  == Min(CMD_WIDTH, SpanOut(in0, WhiteSpace))
        in1 == SkipSpace(Drop(in0, n1))
        n2  == Min(KEY_WIDTH, SpanOut(in1, WhiteSpace))
        in2 == SkipSpace(Drop(in1, n2))
        n3  == Min(VALUE_WIDTH, SpanOut(in2, WhiteSpace))
    IN  IF in0 = <<>> THEN
            [matched |-> -1, cmd_str |-> <<>>, key |-> <<>>, value |-> <<>>]
        ELSE IF in1 = <<>> THEN
            [matched |-> 1, cmd_str |-> Take(in0, n1), key |-> <<>>, value |-> <<>>]
        ELSE IF n3 = 0 THEN
            [matched |-> 2, cmd_str |-> Take(in0, n1), key |-> Take(in1, n2),
             value |-> <<>>]
        ELSE
            [matched |-> 3, cmd_str |-> Take(in0, n1), key |-> Take(in1, n2),
             value |-> Take(in2, n3)]

\* sscanf(buffer, "%9s %99s %1023[^\n]", cmd_str, key, value): the number of
\* conversions done (-1: input ended before the first) and the three targets,
\* which were zeroed before the call.
sscanf(buffer) ==
    LET in0 == SkipSpace(CStr(buffer))
        n1  == Min(CMD_WIDTH, SpanOut(in0, WhiteSpace))
        in1 == SkipSpace(Drop(in0, n1))
        n2  == Min(KEY_WIDTH, SpanOut(in1, WhiteSpace))
        in2 == SkipSpace(Drop(in1, n2))
        n3  == Min(VALUE_WIDTH, SpanOut(in2, {"\n"}))
    IN  IF in0 = <<>> THEN
            [matched |-> -1, cmd_str |-> <<>>, key |-> <<>>, value |-> <<>>]
        ELSE IF in1 = <<>> THEN
            [matched |-> 1, cmd_str |-> Take(in0, n1), key |-> <<>>, value |-> <<>>]
        ELSE IF n3 = 0 THEN
            [matched |-> 2, cmd_str |-> Take(in0, n1), key |-> Take(in1, n2),
             value |-> <<>>]
        ELSE
            [matched |-> 3, cmd_str |-> Take(in0, n1), key |-> Take(in1, n2),
             value |-> Take(in2, n3)]

\* parse_request: the status st and the Request it filled in
parse_request(buffer) ==
    LET s   == sscanf(buffer)
        cmd == IF s.matched < 1 THEN "CMD_INVALID" ELSE parse_cmd(s.cmd_str)
        st  == IF s.matched < 1 THEN -2
               ELSE IF cmd = "CMD_INVALID" THEN -3
               ELSE IF cmd \in {"CMD_GET", "CMD_DEL"} /\ s.matched < 2 THEN -4
               ELSE IF cmd = "CMD_SET" /\ s.matched < 3 THEN -5
               ELSE 0
    IN  [st |-> st, req |-> [cmd |-> cmd, key |-> s.key, value |-> s.value]]

\* the selection with st = -2 answered by the generic message
parse_error_msg_Generic(st) ==
    IF st = -3 THEN MSG_COMANDO_INVALIDO
    ELSE IF st = -4 THEN MSG_FALTA_CLAVE
    ELSE IF st = -5 THEN MSG_FALTA_VALOR
    ELSE MSG_FORMATO_INVALIDO

\* the message handle_client answers a parse failure with
parse_error_msg(st) ==
    IF st = -2 \/ st = -3 THEN MSG_COMANDO_INVALIDO
    ELSE IF st = -4 THEN MSG_FALTA_CLAVE
    ELSE IF st = -5 THEN MSG_FALTA_VALOR
    ELSE MSG_FORMATO_INVALIDO

(***************************************************************************)
(* Handlers.  fs is the file system; io is the outcome of the one file     *)
(* system call the handler makes ("ok" or "fail").  Each yields the        *)
(* response and the file system it leaves.                                 *)
(***************************************************************************)
Exists(fs, name) == name \in DOMAIN fs

\* fopen(name, "a"): the content is added to what the file holds
WriteFile_Append(fs, name, content) ==
    [n \in DOMAIN fs \cup {name} |->
        IF n = name THEN (IF name \in DOMAIN fs THEN fs[name] ELSE <<>>) \o content
        ELSE fs[n]]

WriteFile(fs, name, content) ==
    [n \in DOMAIN fs \cup {name} |-> IF n = name THEN content ELSE fs[n]]

\* remove() that empties the directory
RemoveFile_Wipe(fs, name) == [n \in {} |-> <<>>]

RemoveFile(fs, name) == [n \in DOMAIN fs \ {name} |-> fs[n]]

handle_set(req, fs, io) ==
    IF ~clave_valida(req.key) THEN
        [response |-> snprintf(BUFFER_SIZE, MSG_CLAVE_INVALIDA), fs |-> fs]
    ELSE IF io = "fail" THEN
        [response |-> snprintf(BUFFER_SIZE, MSG_NO_SE_PUDO_CREAR), fs |-> fs]
    ELSE
        [response |-> snprintf(BUFFER_SIZE, MSG_OK),
         fs |-> WriteFile(fs, req.key, CStr(req.value))]

\* handle_get answering a missing file as an empty one
handle_get_NoFile_OK(req, fs, io) ==
    IF ~clave_valida(req.key) THEN
        [response |-> snprintf(BUFFER_SIZE, MSG_CLAVE_INVALIDA), fs |-> fs]
    ELSE
        LET contenido == IF Exists(fs, req.key) /\ io = "ok"
                         THEN Take(fs[req.key], BUFFER_SIZE - 1) ELSE <<>>
        IN  [response |->
                 snprintf(BUFFER_SIZE,
                          <<"O", "K", "\n">>
                              \o Take(CStr(contenido), BUFFER_SIZE - 5)
                              \o <<"\n">>),
             fs |-> fs]

\* handle_get formatting with "OK\n%s\n", no precision on the content
handle_get_NoPrecision(req, fs, io) ==
    IF ~clave_valida(req.key) THEN
        [response |-> snprintf(BUFFER_SIZE, MSG_CLAVE_INVALIDA), fs |-> fs]
    ELSE IF ~Exists(fs, req.key) \/ io = "fail" THEN
        [response |-> snprintf(BUFFER_SIZE, MSG_NOTFOUND), fs |-> fs]
    ELSE
        LET contenido == Take(fs[req.key], BUFFER_SIZE - 1)
        IN  [response |->
                 snprintf(BUFFER_SIZE,
                          <<"O", "K", "\n">> \o CStr(contenido) \o <<"\n">>),
             fs |-> fs]

handle_get(req, fs, io) ==
    IF ~clave_valida(req.key) THEN
        [response |-> snprintf(BUFFER_SIZE, MSG_CLAVE_INVALIDA), fs |-> fs]
    ELSE IF ~Exists(fs, req.key) \/ io = "fail" THEN
        [response |-> snprintf(BUFFER_SIZE, MSG_NOTFOUND), fs |-> fs]
    ELSE
        LET contenido == Take(fs[req.key], BUFFER_SIZE - 1)
        IN  [response |->
                 snprintf(BUFFER_SIZE,
                          <<"O", "K", "\n">>
                              \o Take(CStr(contenido), BUFFER_SIZE - 5)
                              \o <<"\n">>),
             fs |-> fs]

\* handle_del answering by the result of remove()
handle_del_ChecksRemove(req, fs, io) ==
    IF ~clave_valida(req.key) THEN
        [response |-> snprintf(BUFFER_SIZE, MSG_CLAVE_INVALIDA), fs |-> fs]
    ELSE IF ~Exists(fs, req.key) \/ io = "fail" THEN
        [response |-> snprintf(BUFFER_SIZE, MSG_NOTFOUND), fs |-> fs]
    ELSE
        [response |-> snprintf(BUFFER_SIZE, MSG_OK), fs |-> RemoveFile(fs, req.key)]

handle_del(req, fs, io) ==
    IF ~clave_valida(req.key) THEN
        [response |-> snprintf(BUFFER_SIZE, MSG_CLAVE_INVALIDA), fs |-> fs]
    ELSE
        [response |-> snprintf(BUFFER_SIZE, MSG_OK),
         fs |-> IF io = "ok" THEN RemoveFile(fs, req.key) ELSE fs]

\* the switch without its default branch: response stays empty
run_request_NoDefault(req, fs, io) ==
    IF req.cmd = "CMD_SET" THEN handle_set(req, fs, io)
    ELSE IF req.cmd = "CMD_GET" THEN handle_get(req, fs, io)
    ELSE IF req.cmd = "CMD_DEL" THEN handle_del(req, fs, io)
    ELSE [response |-> <<>>, fs |-> fs]

\* the switch of run_request
run_request(req, fs, io) ==
    IF req.cmd = "CMD_SET" THEN handle_set(req, fs, io)
    ELSE IF req.cmd = "CMD_GET" THEN handle_get(req, fs, io)
    ELSE IF req.cmd = "CMD_DEL" THEN handle_del(req, fs, io)
    ELSE [response |-> snprintf(BUFFER_SIZE, MSG_COMANDO_INVALIDO), fs |-> fs]

\* the answer of handle_client to the bytes read, on storage fs, when the
\* storage call it makes goes as io says
Reply(bytes, fs, io) ==
    LET p == parse_request(bytes)
    IN  IF p.st # 0 THEN [response |-> parse_error_msg(p.st), fs |-> fs]
        ELSE run_request(p.req, fs, io)


(***************************************************************************)
(* What clients send.  A request on the wire is a command token, a key     *)
(* token and a value-rest-of-line, each possibly absent (empty), joined by *)
(* single spaces and ended by nl.  The server sees only Bytes(w).          *)
(***************************************************************************)
NL == <<"\n">>

PUT == <<"P", "U", "T">>

\* a command token one byte longer than cmd_str can hold
LongCmdTok == Rep("S", CMD_WIDTH) \o <<"x">>

\* a key token longer than key[] can hold, with a '/' past the ceiling
LongKeyTok == Rep("a", KEY_WIDTH) \o <<"/">> \o Rep("b", MaxExcess)

\* a key token longer than key[] can hold, with a '.' below the ceiling
LongBadKeyTok == <<".">> \o Rep("a", KEY_WIDTH)

PlainKeys == {<<"k">>}

BadKeys == {<<"a", "/", "b">>, <<"a", "\\">>, <<".", "c">>, LongBadKeyTok}

Values == {<<>>, <<"v">>, <<" ", "v">>, <<"w", " ", "x", " ">>}

Wire(c, k, v, n) == [cmd |-> c, key |-> k, val |-> v, nl |-> n]

Wires ==
    {Wire(c, k, v, NL) :
        c \in {SET, GET, DEL}, k \in PlainKeys \cup {LongKeyTok}, v \in Values}
    \cup {Wire(c, k, v, NL) : c \in {SET, GET, DEL}, k \in BadKeys, v \in {<<>>, <<"v">>}}
    \cup {Wire(c, <<>>, <<>>, n) : c \in {SET, GET, DEL}, n \in {NL, <<>>}}
    \cup {Wire(<<>>, <<>>, <<>>, NL), Wire(<<>>, <<>>, <<>>, <<" ">>)}
    \cup {Wire(PUT, <<"k">>, <<"v">>, NL), Wire(LongCmdTok, <<"k">>, <<"v">>, NL)}

Bytes(w) ==
    w.cmd
        \o (IF w.key = <<>> THEN <<>> ELSE <<" ">> \o w.key)
        \o (IF w.val = <<>> THEN <<>> ELSE <<" ">> \o w.val)
        \o w.nl

(***************************************************************************)
(* State.                                                                  *)
(***************************************************************************)
VARIABLES
    pc,           \* where main / handle_client stands
    g_stop,       \* the flag on_sigint sets
    eintr,        \* the blocked accept() was interrupted by the signal
    exit_status,  \* "running", "EXIT_SUCCESS" or "EXIT_FAILURE"
    server_fd,    \* "none", "open" or "closed"
    client_fd,    \* the socket handle_client owns (0: none)
    nconn,        \* connections accepted so far
    open,         \* client sockets open in the process
    closes,       \* close() calls made on each client socket
    wire,         \* what the client of this connection sent
    buffer,       \* handle_client's buffer after read()
    st,           \* parse_request's status
    req,          \* the parsed Request
    response,     \* the response text being sent
    wn,           \* write_all's n: bytes still to write
    out,          \* bytes the socket has taken
    wret,         \* write_all's result (0: not returned)
    files,        \* the working directory: file name -> content
    outcome,      \* how the last connection went
    everSet,      \* keys some SET has created a file for
    lastSent,     \* key -> value-rest-of-line of the SET that last wrote it
    streak,       \* the run of consecutive DEL requests on one key
    wcalls,       \* write_all calls made for the current connection
    kv,           \* key -> what the requests served so far make of it
    sv_files,     \* servidor.c: the working directory
    sv_response   \* servidor.c: the response text written

vars ==
    <<pc, g_stop, eintr, exit_status, server_fd, client_fd, nconn, open, closes,
      wire, buffer, st, req, response, wn, out, wret, files, outcome,
      everSet, lastSent, streak, wcalls, kv, sv_files, sv_response>>

sigVars == <<g_stop, eintr>>

sockVars == <<server_fd, client_fd, nconn, open, closes>>

reqVars == <<wire, buffer, st, req>>

writeVars == <<response, wn, out, wret, wcalls>>

histVars == <<everSet, lastSent, streak, kv>>

svVars == <<sv_files, sv_response>>

EmptyFS == [n \in {} |-> <<>>]

NoWire == Wire(<<>>, <<>>, <<>>, <<>>)

NoReq == [cmd |-> "CMD_INVALID", key |-> <<>>, value |-> <<>>]

NoStreak == [key |-> <<>>, n |-> 0, phase |-> "none", stored |-> FALSE,
             same |-> TRUE, allOK |-> TRUE, clean |-> TRUE]

\* no signal has arrived
NoSignal == g_stop = 0 /\ eintr = FALSE

\* no client has connected
NoClient == client_fd = 0 /\ nconn = 0 /\ open = {} /\ closes = <<>>

\* no request has been read
NoRequest == wire = NoWire /\ buffer = <<>> /\ st = 0 /\ req = NoReq

\* write_all has not been called
NoWrite == response = <<>> /\ wn = 0 /\ out = <<>> /\ wret = 0 /\ wcalls = 0

\* nothing has been served
NoHistory ==
    /\ outcome = "none"
    /\ everSet = {}
    /\ lastSent = EmptyFS
    /\ streak = NoStreak
    /\ kv = EmptyFS

\* servidor.c is not running
NoServidor == sv_files = EmptyFS /\ sv_response = <<>>

Init ==
    /\ pc = "socket"
    /\ exit_status = "running"
    /\ server_fd = "none"
    /\ files = EmptyFS
    /\ NoSignal
    /\ NoClient
    /\ NoRequest
    /\ NoWrite
    /\ NoHistory
    /\ NoServidor

(***************************************************************************)
(* The signal handler.  SIGINT may arrive at any point once the handler is *)
(* installed.  A signal that arrives while accept() blocks either makes it *)
(* fail with EINTR or, when signal() installed the handler with restart    *)
(* semantics, lets it go on blocking: both builds exist.                   *)
(***************************************************************************)
on_sigint ==
    /\ exit_status = "running"
    /\ g_stop' = 1
    /\ \E restart \in BOOLEAN :
           eintr' = IF pc = "in_accept" THEN (eintr \/ ~restart) ELSE eintr
    /\ UNCHANGED <<svVars, pc, exit_status, sockVars, reqVars, writeVars, files,
                   outcome, histVars>>

(***************************************************************************)
(* main: start-up.  Each call may fail; a failure ends the process with    *)
(* EXIT_FAILURE.                                                           *)
(***************************************************************************)
Startup(at, next) ==
    /\ pc = at
    /\ \E ok \in BOOLEAN :
           IF ok THEN
               /\ pc' = next
               /\ server_fd' = "open"
               /\ exit_status' = exit_status
           ELSE
               /\ pc' = "done"
               /\ server_fd' = IF server_fd = "open" THEN "closed" ELSE server_fd
               /\ exit_status' = "EXIT_FAILURE"
    /\ UNCHANGED <<svVars, sigVars, client_fd, nconn, open, closes, reqVars, writeVars,
                   files, outcome, histVars>>

Socket == Startup("socket", "setsockopt")

Setsockopt == Startup("setsockopt", "bind")

Bind == Startup("bind", "listen")

Listen == Startup("listen", "loop")

(***************************************************************************)
(* main: the accept loop.                                                  *)
(***************************************************************************)
\* while (!g_stop)
LoopTest ==
    /\ pc = "loop"
    /\ pc' = IF g_stop = 0 THEN "call_accept" ELSE "shutdown"
    /\ UNCHANGED <<svVars, sigVars, exit_status, sockVars, reqVars, writeVars, files,
                   outcome, histVars>>

\* the accept() call is entered and blocks
EnterAccept ==
    /\ pc = "call_accept"
    /\ pc' = "in_accept"
    /\ eintr' = FALSE
    /\ UNCHANGED <<svVars, g_stop, exit_status, sockVars, reqVars, writeVars, files,
                   outcome, histVars>>

\* accept() returns a client socket
AcceptClient ==
    /\ pc = "in_accept"
    /\ ~eintr
    /\ nconn < MaxConns
    /\ nconn' = nconn + 1
    /\ client_fd' = nconn + 1
    /\ open' = open \cup {nconn + 1}
    /\ closes' = Append(closes, 0)
    /\ pc' = "read"
    /\ wret' = 0
    /\ wcalls' = 0
    /\ UNCHANGED <<svVars, sigVars, exit_status, server_fd, reqVars, response, wn, out,
                   files, outcome, histVars>>

\* where main goes when accept() returned -1
accept_failed(errno, stop) ==
    IF errno = "EINTR" /\ stop = 1 THEN "shutdown" ELSE "loop"

AcceptFailed ==
    /\ pc = "in_accept"
    /\ \E errno \in (IF eintr THEN {"EINTR"} ELSE {"ECONNABORTED"}) :
           pc' = accept_failed(errno, g_stop)
    /\ eintr' = FALSE
    /\ UNCHANGED <<svVars, g_stop, exit_status, sockVars, reqVars, writeVars, files,
                   outcome, histVars>>

\* close(server_fd); return 0
Shutdown ==
    /\ pc = "shutdown"
    /\ pc' = "done"
    /\ server_fd' = "closed"
    /\ exit_status' = "EXIT_SUCCESS"
    /\ UNCHANGED <<svVars, sigVars, client_fd, nconn, open, closes, reqVars, writeVars,
                   files, outcome, histVars>>

(***************************************************************************)
(* handle_client: read, parse, run, respond, close.                        *)
(***************************************************************************)
\* close(fd) that releases nothing
close_fd_Leak(fds, fd) == fds

\* close(fd) on the set of open sockets
close_fd(fds, fd) == fds \ {fd}

CloseClient ==
    /\ open' = close_fd(open, client_fd)
    /\ closes' = [closes EXCEPT ![client_fd] = @ + 1]
    /\ client_fd' = 0

\* what write_all starts from: the whole response is still to be written
StartWrite(text) ==
    /\ response' = text
    /\ wn' = Len(text)
    /\ out' = <<>>
    /\ wret' = 0
    /\ wcalls' = wcalls + 1
    /\ pc' = IF Len(text) > 0 THEN "write" ELSE "close"

\* the failed read returning without close(client_fd)
ReadFailed_NoClose ==
    /\ pc = "read"
    /\ \E bytes \in {-1, 0} : bytes <= 0
    /\ client_fd' = 0
    /\ pc' = "loop"
    /\ outcome' = "read_failed"
    /\ streak' = NoStreak
    /\ UNCHANGED <<svVars, sigVars, exit_status, server_fd, nconn, open, closes, reqVars,
                   writeVars, files, everSet, lastSent, kv>>

\* the failed read ending the process: perror, close, exit(EXIT_FAILURE)
ReadFailed_Exit ==
    /\ pc = "read"
    /\ \E bytes \in {-1, 0} : bytes <= 0
    /\ CloseClient
    /\ pc' = "done"
    /\ exit_status' = "EXIT_FAILURE"
    /\ outcome' = "read_failed"
    /\ streak' = NoStreak
    /\ UNCHANGED <<svVars, sigVars, server_fd, nconn, reqVars, writeVars, files,
                   everSet, lastSent, kv>>

\* read() returned 0 or -1: perror, close, return
ReadFailed ==
    /\ pc = "read"
    /\ \E bytes \in {-1, 0} : bytes <= 0
    /\ CloseClient
    /\ pc' = "loop"
    /\ outcome' = "read_failed"
    /\ streak' = NoStreak
    /\ UNCHANGED <<svVars, sigVars, exit_status, server_fd, nconn, reqVars, writeVars,
                   files, everSet, lastSent, kv>>

\* read() returned the client's bytes, at most BUFFER_SIZE - 1 of them
ReadOk ==
    /\ pc = "read"
    /\ \E w \in Wires :
           /\ Len(Bytes(w)) > 0
           /\ wire' = w
           /\ buffer' = Take(Bytes(w), BUFFER_SIZE - 1)
    /\ pc' = "parse"
    /\ outcome' = "none"
    /\ UNCHANGED <<svVars, sigVars, exit_status, sockVars, st, req, writeVars, files,
                   histVars>>

\* parse_request, and the answer to a request it rejects; buffer is not read
\* again after this step
Parse ==
    /\ pc = "parse"
    /\ LET p == parse_request(buffer)
       IN  /\ st' = p.st
           /\ req' = p.req
           /\ IF p.st # 0 THEN
                  /\ StartWrite(parse_error_msg(p.st))
                  /\ outcome' = "parse_error"
                  /\ streak' = NoStreak
              ELSE
                  /\ pc' = "run"
                  /\ UNCHANGED <<writeVars, outcome, streak>>
    /\ buffer' = <<>>
    /\ UNCHANGED <<svVars, sigVars, exit_status, sockVars, wire, files, everSet, lastSent, kv>>

\* how a dispatched request went
Outcome(r, fs, io) ==
    IF r.cmd \in {"CMD_SET", "CMD_GET", "CMD_DEL"} /\ ~clave_valida(r.key)
        THEN "invalid_key"
    ELSE IF io = "fail" /\ (r.cmd = "CMD_SET" \/ Exists(fs, r.key))
        THEN "storage_failed"
    ELSE "served"

NextStreak(r, fs, io, res) ==
    IF r.cmd = "CMD_DEL" /\ clave_valida(r.key) THEN
        LET cont == streak.phase = "del" /\ streak.key = r.key
        IN  [key   |-> r.key,
             n     |-> IF cont THEN 2 ELSE 1,
             phase |-> "del",
             stored |-> IF cont THEN streak.stored ELSE Exists(fs, r.key),
             same  |-> IF cont THEN res.fs = fs ELSE TRUE,
             allOK |-> (cont => streak.allOK) /\ res.response = MSG_OK,
             clean |-> (cont => streak.clean)
                           /\ ~(io = "fail" /\ Exists(fs, r.key))]
    ELSE IF /\ r.cmd = "CMD_GET"
            /\ streak.phase = "del" /\ streak.n = 2 /\ streak.key = r.key
        THEN [streak EXCEPT !.phase = "get"]
    ELSE NoStreak

NextLastSent(r, io) ==
    IF r.cmd \in {"CMD_SET", "CMD_DEL"} /\ clave_valida(r.key) THEN
        IF r.cmd = "CMD_SET" /\ io = "ok" /\ wire.key = r.key
            THEN WriteFile(lastSent, r.key, wire.val)
            ELSE RemoveFile(lastSent, r.key)
    ELSE lastSent

\* a map with key bound to entry, and with key unbound
BindKey(m, key, entry) ==
    [n \in DOMAIN m \cup {key} |-> IF n = key THEN entry ELSE m[n]]

Unbind(m, key) == [n \in DOMAIN m \ {key} |-> m[n]]

\* what the request makes of its key: a served SET binds it to the parsed
\* value (sets counts the SETs since it was last unbound, up to 2), a served
\* DEL unbinds it, and a storage call that failed leaves it unknown
NextKv(r, fs, io) ==
    LET how == Outcome(r, fs, io)
    IN  IF r.cmd \notin {"CMD_SET", "CMD_DEL"} \/ how = "invalid_key" THEN kv
        ELSE IF how = "storage_failed"
            THEN BindKey(kv, r.key, [val |-> <<>>, sets |-> 0, known |-> FALSE])
        ELSE IF r.cmd = "CMD_SET"
            THEN BindKey(kv, r.key,
                       [val |-> r.value,
                        sets |-> IF r.key \in DOMAIN kv /\ kv[r.key].known
                                 THEN 2 ELSE 1,
                        known |-> TRUE])
        ELSE Unbind(kv, r.key)

\* run_request with a GET answered from what the last SET on the key sent,
\* kept in memory, when there is one
Run_MemoGet ==
    /\ pc = "run"
    /\ \E io \in {"ok", "fail"} :
           LET res == IF req.cmd = "CMD_GET" /\ req.key \in DOMAIN lastSent
                      THEN [response |->
                                <<"O", "K", "\n">> \o lastSent[req.key] \o <<"\n">>,
                            fs |-> files]
                      ELSE run_request(req, files, io)
           IN  /\ files' = res.fs
               /\ StartWrite(res.response)
               /\ outcome' = Outcome(req, files, io)
               /\ everSet' = IF req.cmd = "CMD_SET" /\ clave_valida(req.key)
                                 /\ io = "ok"
                             THEN everSet \cup {req.key} ELSE everSet
               /\ lastSent' = NextLastSent(req, io)
               /\ streak' = NextStreak(req, files, io, res)
               /\ kv' = NextKv(req, files, io)
    /\ UNCHANGED <<svVars, sigVars, exit_status, sockVars, reqVars>>

\* run_request up to its write_all call
Run ==
    /\ pc = "run"
    /\ \E io \in {"ok", "fail"} :
           LET res == run_request(req, files, io)
           IN  /\ files' = res.fs
               /\ StartWrite(res.response)
               /\ outcome' = Outcome(req, files, io)
               /\ everSet' = IF req.cmd = "CMD_SET" /\ clave_valida(req.key)
                                 /\ io = "ok"
                             THEN everSet \cup {req.key} ELSE everSet
               /\ lastSent' = NextLastSent(req, io)
               /\ streak' = NextStreak(req, files, io, res)
               /\ kv' = NextKv(req, files, io)
    /\ UNCHANGED <<svVars, sigVars, exit_status, sockVars, reqVars>>

(***************************************************************************)
(* write_all: the loop around write().                                     *)
(***************************************************************************)
\* the counts a write() of n bytes may return
WriteSizes(n) == {w \in 1..n : n - w <= MaxShort}

\* the loop body without p += w: the next write() starts at buf again
write_taken_NoAdvance(text, n, sent, w) ==
    [out |-> sent \o SubSeq(text, 1, w), wn |-> n - w]

\* the loop body when write() took w bytes: they leave from p, then p += w
\* and n -= w; p is text + (len - n)
write_taken(text, n, sent, w) ==
    LET p == Len(text) - n
    IN  [out |-> sent \o SubSeq(text, p + 1, p + w), wn |-> n - w]

\* write() took some w in sizes of the n bytes left
WriteTake(sizes) ==
    /\ pc = "write"
    /\ wn > 0
    /\ \E w \in sizes :
           LET t == write_taken(response, wn, out, w)
           IN  /\ out' = t.out
               /\ wn' = t.wn
               /\ IF t.wn = 0
                  THEN pc' = "close" /\ wret' = Len(response)
                  ELSE pc' = "write" /\ wret' = wret
    /\ UNCHANGED <<svVars, sigVars, exit_status, sockVars, reqVars, response, wcalls,
                   files, outcome, histVars>>

WriteSome == WriteTake(WriteSizes(wn))

\* write() failed with EINTR and write_all gives up: return -1
WriteInterrupted_GivesUp ==
    /\ pc = "write"
    /\ wn > 0
    /\ wret' = -1
    /\ pc' = "close"
    /\ UNCHANGED <<svVars, sigVars, exit_status, sockVars, reqVars, response, wn, out,
                   wcalls, files, outcome, histVars>>

\* write() failed with EINTR: continue
WriteInterrupted ==
    /\ pc = "write"
    /\ wn > 0
    /\ UNCHANGED vars

\* write() failed with another error: return -1
WriteFailed ==
    /\ pc = "write"
    /\ wn > 0
    /\ wret' = -1
    /\ pc' = "close"
    /\ UNCHANGED <<svVars, sigVars, exit_status, sockVars, reqVars, response, wn, out,
                   wcalls, files, outcome, histVars>>

\* close(client_fd) after the response, and back to main; the locals of
\* handle_client and run_request end with the return
Close ==
    /\ pc = "close"
    /\ CloseClient
    /\ pc' = "loop"
    /\ wire' = NoWire
    /\ st' = 0
    /\ req' = NoReq
    /\ response' = <<>>
    /\ wn' = 0
    /\ out' = <<>>
    /\ UNCHANGED <<svVars, sigVars, exit_status, server_fd, nconn, buffer, wret, wcalls,
                   files, outcome, histVars>>

(***************************************************************************)
(* Specifications.                                                         *)
(***************************************************************************)
\* the steps the process takes without waiting for a client
ServerStep ==
    \/ Socket \/ Setsockopt \/ Bind \/ Listen
    \/ LoopTest \/ EnterAccept \/ Shutdown
    \/ (AcceptFailed /\ eintr)
    \/ Parse \/ Run \/ Close

Next ==
    \/ on_sigint
    \/ Socket
    \/ Setsockopt
    \/ Bind
    \/ Listen
    \/ LoopTest
    \/ EnterAccept
    \/ AcceptClient
    \/ AcceptFailed
    \/ Shutdown
    \/ ReadFailed
    \/ ReadOk
    \/ Parse
    \/ Run
    \/ WriteSome
    \/ WriteInterrupted
    \/ WriteFailed
    \/ Close

Spec == Init /\ [][Next]_vars

FairSpec == Spec /\ WF_vars(ServerStep)

(***************************************************************************)
(* write_all on its own: any buffer of up to MaxLen bytes, and a write()   *)
(* that may take any number of the bytes left, none included.              *)
(***************************************************************************)
WriteBufs ==
    UNION {[1..n -> {"a", "b"}] : n \in 1..MaxLen}

\* handle_client of the first connection has just called write_all(fd, buf, len)
WriteInit ==
    /\ pc = "write"
    /\ exit_status = "running"
    /\ server_fd = "open"
    /\ files = EmptyFS
    /\ NoSignal
    /\ client_fd = 1 /\ nconn = 1 /\ open = {1} /\ closes = <<0>>
    /\ NoRequest
    /\ response \in WriteBufs
    /\ wn = Len(response)
    /\ out = <<>>
    /\ wret = 0
    /\ wcalls = 1
    /\ NoHistory
    /\ NoServidor

WriteAny == WriteTake(0..wn)

WriteNext ==
    \/ WriteAny
    \/ WriteInterrupted
    \/ WriteFailed

WriteSpec == WriteInit /\ [][WriteNext]_vars

\* a write() that takes bytes is not put off for ever
FairWriteSpec == WriteSpec /\ WF_vars(WriteAny)

(***************************************************************************)
(* handle_client from the return of a successful read() on, with SIGINT    *)
(* free to arrive at any later point and a client that takes the response: *)
(* write() is cut short or interrupted, and does not fail otherwise.       *)
(***************************************************************************)
\* read() of the first connection has just returned the client's bytes
HandleInit ==
    /\ pc = "parse"
    /\ exit_status = "running"
    /\ server_fd = "open"
    /\ files = EmptyFS
    /\ NoSignal
    /\ client_fd = 1 /\ nconn = 1 /\ open = {1} /\ closes = <<0>>
    /\ wire \in {w \in Wires : Len(Bytes(w)) > 0}
    /\ buffer = Take(Bytes(wire), BUFFER_SIZE - 1)
    /\ st = 0
    /\ req = NoReq
    /\ NoWrite
    /\ NoHistory
    /\ NoServidor

HandleNext ==
    \/ on_sigint
    \/ Parse
    \/ Run
    \/ WriteSome
    \/ WriteInterrupted
    \/ Close
    \/ LoopTest

HandleSpec == HandleInit /\ [][HandleNext]_vars

(***************************************************************************)
(* handle_get on files put in the working directory by other means than    *)
(* the server: short ones, and ones about as long as the buffers, with or  *)
(* without a zero byte.                                                    *)
(***************************************************************************)
GetLengths ==
    (0..MaxSmall) \cup ((BUFFER_SIZE - 6 - MaxOver)..(BUFFER_SIZE + MaxOver))

\* n bytes, alternately 'b' and 'a', with a zero byte at position z if any
GetContent(n, z) ==
    [i \in 1..n |-> IF i = z THEN NUL ELSE IF i % 2 = 0 THEN "a" ELSE "b"]

GetContents == {GetContent(n, z) : n \in GetLengths, z \in {0, 1, 3}}

\* handle_client of the first connection has parsed "GET k"
GetInit ==
    /\ pc = "run"
    /\ exit_status = "running"
    /\ server_fd = "open"
    /\ \E content \in GetContents : files = [n \in {<<"k">>} |-> content]
    /\ NoSignal
    /\ client_fd = 1 /\ nconn = 1 /\ open = {1} /\ closes = <<0>>
    /\ wire = Wire(GET, <<"k">>, <<>>, NL)
    /\ buffer = <<>>
    /\ st = 0
    /\ req = [cmd |-> "CMD_GET", key |-> <<"k">>, value |-> <<>>]
    /\ NoWrite
    /\ NoHistory
    /\ NoServidor

GetNext == Run

GetSpec == GetInit /\ [][GetNext]_vars

(***************************************************************************)
(* The other variant, src/servidor.c: handle_command and the loop of its   *)
(* main.  It has no signal handler, writes the response with one write()   *)
(* and ends the process with exit(EXIT_FAILURE) where server2.c returns.   *)
(***************************************************************************)
\* the two bytes of a small a with acute accent in UTF-8
A_ACUTE == <<"xC3", "xA1">>

SV_MSG_CLAVE_INVALIDA ==
    <<"E", "R", "R", "O", "R", ":", " ", "C", "l", "a", "v", "e", " ",
      "i", "n", "v">> \o A_ACUTE \o <<"l", "i", "d", "a", "\n">>

SV_MSG_COMANDO_INVALIDO ==
    <<"E", "R", "R", "O", "R", ":", " ", "C", "o", "m", "a", "n", "d", "o", " ",
      "i", "n", "v">> \o A_ACUTE \o <<"l", "i", "d", "o", "\n">>

sv_clave_valida(clave) ==
    /\ Len(clave) # 0
    /\ \A i \in 1..Len(clave) : clave[i] \notin {"/", "\\", ".", " "}

\* sscanf(buf, "%s %s %[^\n]", cmd, key, value): the conversions have no
\* width, so a token longer than its array overflows it
sv_sscanf(buf) ==
    LET in0 == SkipSpace(CStr(buf))
        n1  == SpanOut(in0, WhiteSpace)
        in1 == SkipSpace(Drop(in0, n1))
        n2  == SpanOut(in1, WhiteSpace)
        in2 == SkipSpace(Drop(in1, n2))
        n3  == SpanOut(in2, {"\n"})
    IN  [matched  |-> IF in0 = <<>> THEN -1
                      ELSE IF in1 = <<>> THEN 1
                      ELSE IF n3 = 0 THEN 2 ELSE 3,
         cmd      |-> Take(in0, n1),
         key      |-> Take(in1, n2),
         value    |-> Take(in2, n3),
         overflow |-> n1 > CMD_WIDTH \/ n2 > KEY_WIDTH]

\* what the uninitialized arrays of handle_command hold: whether key[] passes
\* clave_valida when sscanf did not fill it, and the bytes of contenido[]
\* between the end of the file's bytes and the first NUL after them
SvJunk == [key_ok : BOOLEAN, tail : {<<>>, <<"?">>}]

\* handle_command from the bytes read on: the response it writes, the file
\* system it leaves, and whether it ended the process with exit()
sv_handle_command(buf, fs, io, junk) ==
    LET s == sv_sscanf(buf)
        key_ok == IF s.matched >= 2 THEN sv_clave_valida(s.key) ELSE junk.key_ok
    IN  IF ~key_ok THEN
            [response |-> snprintf(BUFFER_SIZE, SV_MSG_CLAVE_INVALIDA),
             fs |-> fs, exit |-> FALSE]
        ELSE IF s.cmd = SET /\ s.matched = 3 THEN
            IF io = "fail" THEN [response |-> <<>>, fs |-> fs, exit |-> TRUE]
            ELSE [response |-> snprintf(BUFFER_SIZE, MSG_OK),
                  fs |-> WriteFile(fs, s.key, s.value), exit |-> FALSE]
        ELSE IF s.cmd = GET /\ s.matched >= 2 THEN
            IF ~Exists(fs, s.key) \/ io = "fail" THEN
                [response |-> snprintf(BUFFER_SIZE, MSG_NOTFOUND),
                 fs |-> fs, exit |-> FALSE]
            ELSE
                LET contenido ==
                        Take(Take(fs[s.key], BUFFER_SIZE - 1) \o junk.tail,
                             BUFFER_SIZE - 1)
                IN  [response |->
                         snprintf(BUFFER_SIZE,
                                  <<"O", "K", "\n">> \o CStr(contenido) \o <<"\n">>),
                     fs |-> fs, exit |-> FALSE]
        ELSE IF s.cmd = DEL /\ s.matched >= 2 THEN
            [response |-> snprintf(BUFFER_SIZE, MSG_OK),
             fs |-> IF io = "ok" THEN RemoveFile(fs, s.key) ELSE fs,
             exit |-> FALSE]
        ELSE
            [response |-> snprintf(BUFFER_SIZE, SV_MSG_COMANDO_INVALIDO),
             fs |-> fs, exit |-> FALSE]

\* the requests whose tokens fit cmd[10] and key[100]
SvWires == {w \in Wires : ~sv_sscanf(Bytes(w)).overflow}

\* servidor.c listening: socket, setsockopt, bind and listen have succeeded
SvInit ==
    /\ pc = "sv_accept"
    /\ exit_status = "running"
    /\ server_fd = "open"
    /\ files = EmptyFS
    /\ NoSignal
    /\ NoClient
    /\ NoRequest
    /\ NoWrite
    /\ NoHistory
    /\ NoServidor

\* accept() returns a client socket
sv_Accept ==
    /\ pc = "sv_accept"
    /\ nconn < MaxConns
    /\ nconn' = nconn + 1
    /\ client_fd' = nconn + 1
    /\ open' = open \cup {nconn + 1}
    /\ closes' = Append(closes, 0)
    /\ pc' = "sv_read"
    /\ sv_response' = <<>>
    /\ outcome' = "none"
    /\ UNCHANGED <<sigVars, exit_status, server_fd, reqVars, writeVars, files,
                   everSet, lastSent, streak, kv, sv_files>>

\* accept() failed: perror, continue
sv_AcceptFailed ==
    /\ pc = "sv_accept"
    /\ UNCHANGED vars

\* read() returned 0 or -1: perror, close, exit(EXIT_FAILURE)
sv_ReadFailed ==
    /\ pc = "sv_read"
    /\ \E bytes_read \in {-1, 0} : bytes_read <= 0
    /\ CloseClient
    /\ pc' = "done"
    /\ exit_status' = "EXIT_FAILURE"
    /\ outcome' = "read_failed"
    /\ UNCHANGED <<sigVars, server_fd, nconn, reqVars, writeVars, files,
                   everSet, lastSent, streak, kv, svVars>>

\* read() returned the client's bytes: the rest of handle_command
sv_HandleCommand ==
    /\ pc = "sv_read"
    /\ \E w \in SvWires, io \in {"ok", "fail"}, junk \in SvJunk :
           LET r == sv_handle_command(Take(Bytes(w), BUFFER_SIZE - 1),
                                      sv_files, io, junk)
           IN  /\ Len(Bytes(w)) > 0
               /\ wire' = w
               /\ sv_files' = r.fs
               /\ sv_response' = r.response
               /\ IF r.exit THEN
                      /\ pc' = "done"
                      /\ exit_status' = "EXIT_FAILURE"
                      /\ outcome' = "storage_failed"
                      /\ UNCHANGED <<client_fd, open, closes>>
                  ELSE
                      /\ CloseClient
                      /\ pc' = "sv_accept"
                      /\ outcome' = "served"
                      /\ UNCHANGED exit_status
    /\ UNCHANGED <<sigVars, server_fd, nconn, buffer, st, req, writeVars, files,
                   everSet, lastSent, streak, kv>>

SvNext ==
    \/ sv_Accept
    \/ sv_AcceptFailed
    \/ sv_ReadFailed
    \/ sv_HandleCommand

ServidorSpec == SvInit /\ [][SvNext]_vars

(***************************************************************************)
(* The two variants side by side: each request goes to both, each on its   *)
(* own copy of the storage, and no storage call fails.                     *)
(***************************************************************************)
PairKeys == PlainKeys \cup {<<"j">>, <<"k", "2">>}

\* SET key value, GET key and DEL key with a valid key
PairWires ==
    {Wire(SET, k, v, NL) : k \in PairKeys, v \in Values \ {<<>>}}
    \cup {Wire(c, k, <<>>, NL) : c \in {GET, DEL}, k \in PairKeys}

PairInit ==
    /\ pc = "side_by_side"
    /\ exit_status = "running"
    /\ server_fd = "open"
    /\ files = EmptyFS
    /\ NoSignal
    /\ NoClient
    /\ NoRequest
    /\ NoWrite
    /\ NoHistory
    /\ NoServidor

PairRequest ==
    /\ pc = "side_by_side"
    /\ \E w \in PairWires, junk \in SvJunk :
           LET bytes == Take(Bytes(w), BUFFER_SIZE - 1)
               a == Reply(bytes, files, "ok")
               b == sv_handle_command(bytes, sv_files, "ok", junk)
           IN  /\ wire' = w
               /\ response' = a.response
               /\ files' = a.fs
               /\ sv_response' = b.response
               /\ sv_files' = b.fs
    /\ UNCHANGED <<pc, sigVars, exit_status, sockVars, buffer, st, req, wn, out,
                   wret, wcalls, outcome, histVars>>

PairNext == PairRequest

PairSpec == PairInit /\ [][PairNext]_vars

(***************************************************************************)
(* Properties.                                                             *)
(***************************************************************************)
CmdTokens == {SET, GET, DEL}

\* the response of the connection has been chosen and not yet discarded
Answered == pc \in {"write", "close"}

\* the step of handle_client that chooses the response
Answering == pc \in {"parse", "run"} /\ pc' \in {"write", "close"}

\* the request on the wire carries a value-rest-of-line that is not blank
HasValue(w) == SkipSpace(w.val) # <<>>

\* something other than white space follows the first KEY_WIDTH bytes of the
\* key token
Followed(w) == Len(w.key) > KEY_WIDTH \/ HasValue(w)

\* the bytes clave_valida is there to keep out of a file name
Hazard(key) == \E i \in 1..Len(key) : key[i] \in {"/", "\\", "."}

GetResponse(content) == <<"O", "K", "\n">> \o content \o <<"\n">>

\* C1 (as claimed): every SET, GET or DEL request whose key token contains
\* '/', '\' or '.' is answered with the invalid-key error and leaves the
\* files untouched, whatever else the request holds.
C1_InvalidKeyToken ==
    [][(/\ Answering
        /\ wire.cmd \in CmdTokens
        /\ Hazard(wire.key))
       => (response' = MSG_CLAVE_INVALIDA /\ files' = files)]_vars

\* C1 (amended): every SET, GET or DEL request whose key token has '/', '\'
\* or '.' among its first KEY_WIDTH bytes leaves the files untouched and is
\* answered with the invalid-key error, except a SET in which nothing follows
\* those bytes of the key token, which is answered with the missing-value
\* error.
C1_InvalidParsedKey ==
    [][(/\ Answering
        /\ wire.cmd \in CmdTokens
        /\ Hazard(Take(wire.key, KEY_WIDTH)))
       => /\ files' = files
          /\ response' = IF wire.cmd = SET /\ ~Followed(wire)
                         THEN MSG_FALTA_VALOR ELSE MSG_CLAVE_INVALIDA]_vars

C1_Witness ==
    /\ pc = "write"
    /\ wire.cmd = SET
    /\ wire.key = <<".", "c">>
    /\ HasValue(wire)
    /\ response = MSG_CLAVE_INVALIDA
    /\ files # EmptyFS

\* C2 (as claimed): a GET on a valid key answers OK followed by exactly the
\* value-rest-of-line of the successful SET that last wrote the key, leading
\* and trailing spaces included, when no SET or DEL on the key came between
\* (stated here for the GETs whose fopen succeeds).
C2_RoundTripExact ==
    (/\ Answered
     /\ st = 0
     /\ req.cmd = "CMD_GET"
     /\ Exists(lastSent, req.key)
     /\ outcome = "served")
    => response = GetResponse(lastSent[req.key])

\* C2 (amended): such a GET, when its fopen does not fail, answers OK followed
\* by the value-rest-of-line without its leading white space; embedded and
\* trailing spaces are kept.
C2_RoundTrip ==
    (/\ Answered
     /\ st = 0
     /\ req.cmd = "CMD_GET"
     /\ Exists(lastSent, req.key)
     /\ outcome = "served")
    => response = GetResponse(SkipSpace(lastSent[req.key]))

C2_Witness ==
    /\ pc = "close"
    /\ req.cmd = "CMD_GET"
    /\ Exists(lastSent, req.key)
    /\ lastSent[req.key] = <<"w", " ", "x", " ">>
    /\ out = <<"O", "K", "\n", "w", " ", "x", " ", "\n">>

\* C3: from empty files, a GET on a valid key for which no SET has succeeded
\* answers NOTFOUND.
C3_GetNeverSet ==
    (/\ Answered
     /\ st = 0
     /\ req.cmd = "CMD_GET"
     /\ clave_valida(req.key)
     /\ req.key \notin everSet)
    => response = MSG_NOTFOUND

C3_Witness ==
    /\ pc = "write"
    /\ st = 0
    /\ req.cmd = "CMD_GET"
    /\ req.key = <<"k">>
    /\ everSet # {}
    /\ req.key \notin everSet
    /\ response = MSG_NOTFOUND

NoToken(w) == SkipSpace(Bytes(w)) = <<>>

UnknownCommand(w) == w.cmd # <<>> /\ w.cmd \notin CmdTokens

MissingKey(w) == w.cmd \in {GET, DEL} /\ w.key = <<>>

MissingValue(w) == w.cmd = SET /\ w.key # <<>> /\ ~HasValue(w)

LoopPcs == {"loop", "call_accept", "in_accept"}

\* where main is inside handle_client
HandlePcs == {"read", "parse", "run", "write", "close"}

\* C6: once the signal has been delivered, leaving the accept loop never waits
\* for a client: in the loop the process can always take a step of its own,
\* and it ends with the listening socket closed and EXIT_SUCCESS.
C6_ShutdownNeedsNoClient ==
    /\ (g_stop = 1 /\ pc \in LoopPcs \cup {"shutdown"}) => ENABLED ServerStep
    /\ (pc = "done" /\ exit_status # "EXIT_FAILURE")
           => (server_fd = "closed" /\ exit_status = "EXIT_SUCCESS")

\* C7: no accept() returns a client socket once g_stop is set.
C7_NoAcceptAfterStop ==
    [][(pc = "in_accept" /\ pc' = "read") => g_stop = 0]_vars

\* C8: at most one client socket is open at any moment, and accept() is
\* called only when the previous connection's socket has been closed.
C8_Sequential ==
    /\ Cardinality(open) <= 1
    /\ pc \in {"call_accept", "in_accept"} => (open = {} /\ client_fd = 0)

C8_Witness ==
    /\ pc = "in_accept"
    /\ nconn >= 2
    /\ open = {}

\* C9: handle_client closes its socket exactly once on every path: a socket is
\* not closed while handle_client runs, and has been closed once, and is no
\* longer open, when handle_client has returned.
C9_ClosedOnce ==
    /\ DOMAIN closes = 1..nconn
    /\ \A fd \in 1..nconn :
           /\ closes[fd] = IF fd = client_fd THEN 0 ELSE 1
           /\ fd \in open <=> closes[fd] = 0
    /\ pc \in HandlePcs <=> client_fd # 0

C9_Witness ==
    /\ pc = "loop"
    /\ wret = -1
    /\ nconn >= 1
    /\ closes[nconn] = 1
    /\ open = {}

ErrorOutcomes == {"read_failed", "parse_error", "invalid_key", "storage_failed"}

\* C10: a failed read, a protocol error, an invalid key or a storage failure
\* never ends the process: after such a connection main is in its accept loop
\* (or leaving it because of the signal); EXIT_FAILURE is reached only from the
\* start-up calls, before any connection was accepted.
C10_ErrorsNotFatal ==
    /\ exit_status = "EXIT_FAILURE"
           => (nconn = 0 /\ outcome = "none" /\ pc = "done")
    /\ exit_status = "EXIT_SUCCESS" => g_stop = 1
    /\ (outcome \in ErrorOutcomes /\ client_fd = 0)
           => /\ exit_status # "EXIT_FAILURE"
              /\ pc \in LoopPcs \/ g_stop = 1

C10_Witness ==
    /\ pc = "read"
    /\ outcome = "storage_failed"
    /\ exit_status = "running"
    /\ nconn >= 2

\* C11: in servidor.c a connection whose read returned zero or a negative
\* count is closed without a response and a SET whose file cannot be opened is
\* answered with the could-not-create message, and in both cases the server
\* keeps running and goes on to accept.
C11_ServidorKeepsRunning ==
    /\ outcome = "read_failed" =>
           /\ exit_status = "running"
           /\ pc = "sv_accept"
           /\ sv_response = <<>>
    /\ outcome = "storage_failed" =>
           /\ exit_status = "running"
           /\ pc = "sv_accept"
           /\ sv_response = MSG_NO_SE_PUDO_CREAR

\* what write_all has written and returned so far: the socket has taken the
\* first len - n bytes of the buffer, each once and in order; the result is
\* len only when all of them are out, and -1 or len once the loop is left
C12_WrittenOnceInOrder ==
    /\ out = Take(response, Len(response) - wn)
    /\ wret \in {0, -1, Len(response)}
    /\ wret = Len(response) => out = response /\ wn = 0
    /\ wret = -1 => wn > 0
    /\ pc = "close" <=> wret # 0

\* C12: under any sequence of partial writes and EINTR, write_all returns len
\* only after exactly the len bytes of the buffer were written once each and
\* in order, or -1 after a write failed; it never returns success with bytes
\* missing or duplicated, and it returns when the writes that do not fail
\* make progress.
C12_WriteAll == []C12_WrittenOnceInOrder /\ <>(pc = "close")

\* a partial write has left write_all in the middle of the buffer
C12_Witness ==
    /\ pc = "write"
    /\ 0 < wn /\ wn < Len(response)
    /\ Len(response) = MaxLen
    /\ out = Take(response, Len(response) - wn)

\* a step of handle_client past its read: it stays in handle_client with the
\* client socket open, or it is the final close, made after the request was
\* parsed and, when accepted, dispatched, and after one write_all call put
\* the whole response on the socket
C13_Step ==
    pc \in {"parse", "run", "write", "close"} =>
        \/ /\ pc' \in {"parse", "run", "write", "close"}
           /\ client_fd' = client_fd
           /\ client_fd \in open'
        \/ /\ pc = "close"
           /\ pc' = "loop"
           /\ outcome # "none"
           /\ (st = 0 => outcome # "parse_error")
           /\ wcalls = 1
           /\ response # <<>>
           /\ out = response
           /\ wret = Len(response)
           /\ client_fd \notin open'
           /\ closes'[client_fd] = 1

C14_TruncatesAtCeiling ==
    pc \in {"run", "write", "close"} =>
        /\ Len(wire.key) > KEY_WIDTH =>
               /\ req.key = Take(wire.key, KEY_WIDTH)
               /\ req.value = SkipSpace(wire.val)
        /\ Len(wire.cmd) > CMD_WIDTH =>
               req.key = Take(wire.key, KEY_WIDTH)

\* the step that chooses the response takes it, and the storage it leaves,
\* from the bytes of this connection and the storage of this moment
C15_Step ==
    Answering =>
        \E io \in {"ok", "fail"} :
            LET a == Reply(Take(Bytes(wire), BUFFER_SIZE - 1), files, io)
            IN  response' = a.response /\ files' = a.fs

\* C15: no state crosses requests.  The response to a connection and its
\* effect on storage are a function of the connection's request bytes and of
\* the storage contents at that moment (and of how the storage call goes), in
\* every reachable state: whatever requests came before, the same bytes on
\* the same storage get the same answer.
C15_NoCrossRequestState == [][C15_Step]_vars

\* a GET answered on storage that a SET and a DEL of earlier connections have
\* left as a run without them would find it
C15_Witness ==
    /\ pc = "write"
    /\ req.cmd = "CMD_GET"
    /\ req.key \in everSet
    /\ files = EmptyFS
    /\ response = MSG_NOTFOUND
    /\ nconn >= 3

\* C16: for well-formed requests with a valid key and a working file system
\* servidor.c and server2.c are equivalent: side by side from the same storage
\* they give the same response and leave the same storage after every request.
C16_VariantsEquivalent ==
    pc = "side_by_side" => response = sv_response /\ files = sv_files

\* a step of a connection: write_all is called at most once; handle_client is
\* left after a failed read with no call made, and otherwise through its
\* final close with one call made, on a message that is not empty; and
\* run_request answers every command, CMD_INVALID too
C17_Step ==
    /\ wcalls' <= 1
    /\ pc = "read" /\ pc' \notin {"read", "parse"} =>
           wcalls = 0 /\ wcalls' = 0 /\ out' = <<>> /\ closes'[client_fd] = 1
    /\ pc \in {"parse", "run", "write", "close"}
           /\ pc' \notin {"parse", "run", "write", "close"} =>
           /\ pc = "close"
           /\ wcalls = 1
           /\ response # <<>>
           /\ wret # 0
           /\ closes[client_fd] = 0 /\ closes'[client_fd] = 1
    /\ \A c \in {"CMD_INVALID", "CMD_SET", "CMD_GET", "CMD_DEL"},
          io \in {"ok", "fail"} :
           run_request([req EXCEPT !.cmd = c], files, io).response # <<>>

\* C17: every connection whose read returned at least one byte is sent
\* exactly one response, by one write_all call with a non-empty message,
\* before its socket is closed; a connection whose read returned zero or a
\* negative count is sent none; the dispatcher is total.
C17_OneResponse == [][C17_Step]_vars

\* a connection about to be closed after its one response went out
C17_Witness ==
    /\ pc = "close"
    /\ wcalls = 1
    /\ response # <<>>
    /\ out = response
    /\ wret = Len(response)

\* C18 as stated: a GET of a stored key, whatever the length of the content,
\* is answered with "OK\n", the first min(length, BUFFER_SIZE - 5) bytes of
\* the content and a newline; at most BUFFER_SIZE - 1 bytes, the last one a
\* newline, and never an error.
C18_GetFirstBytes ==
    pc \in {"write", "close"} /\ outcome = "served" =>
        LET content == files[req.key]
            shown == SubSeq(content, 1, Min(Len(content), BUFFER_SIZE - 5))
        IN  /\ response = <<"O", "K", "\n">> \o shown \o <<"\n">>
            /\ Len(response) <= BUFFER_SIZE - 1
            /\ response[Len(response)] = "\n"

\* the bytes of a file before its first zero byte
UpToNul(content) ==
    SubSeq(content, 1,
           IF \E i \in 1..Len(content) : content[i] = NUL
           THEN (CHOOSE i \in 1..Len(content) :
                     /\ content[i] = NUL
                     /\ \A j \in 1..(i - 1) : content[j] # NUL) - 1
           ELSE Len(content))

\* C18, amended: a GET of a stored key is answered with "OK\n", the first
\* min(m, BUFFER_SIZE - 5) bytes of the content and a newline, where m is the
\* length of the content up to its first zero byte (the whole length when it
\* has none); at most BUFFER_SIZE - 1 bytes, the last one a newline, and
\* never an error.
C18_GetFirstBytesOfText ==
    pc \in {"write", "close"} /\ outcome = "served" =>
        LET text == UpToNul(files[req.key])
            shown == SubSeq(text, 1, Min(Len(text), BUFFER_SIZE - 5))
        IN  /\ response = <<"O", "K", "\n">> \o shown \o <<"\n">>
            /\ Len(response) <= BUFFER_SIZE - 1
            /\ response[Len(response)] = "\n"

\* a file longer than the buffer, answered with a response that fills it
C18_Witness ==
    /\ pc = "write"
    /\ outcome = "served"
    /\ Len(files[req.key]) > BUFFER_SIZE
    /\ Len(response) = BUFFER_SIZE - 1
    /\ response[Len(response)] = "\n"

\* C19: from empty storage and without storage failures, storage behaves as
\* a map.  The files are the keys bound by the SETs and DELs served so far,
\* each holding the value of the last SET on it, and a GET is answered with
\* that value, or with NOTFOUND for a key no SET has bound since its last
\* DEL; a second SET on a key replaces the value of the first.  A key on
\* which a storage call has failed is left out until a call on it succeeds.
C19_StorageIsMap ==
    /\ \A k \in DOMAIN files \cup DOMAIN kv :
           \/ k \in DOMAIN kv /\ ~kv[k].known
           \/ k \in DOMAIN kv /\ k \in DOMAIN files /\ files[k] = kv[k].val
    /\ pc \in {"write", "close"} /\ st = 0 /\ req.cmd = "CMD_GET"
           /\ outcome = "served" =>
           IF req.key \notin DOMAIN kv THEN response = MSG_NOTFOUND
           ELSE kv[req.key].known =>
                    response = <<"O", "K", "\n">> \o kv[req.key].val \o <<"\n">>

\* a GET answered with the value of the second of two SETs on its key
C19_Witness ==
    /\ pc = "write"
    /\ req.cmd = "CMD_GET"
    /\ outcome = "served"
    /\ req.key \in DOMAIN kv
    /\ kv[req.key].known
    /\ kv[req.key].sets = 2
    /\ response = <<"O", "K", "\n">> \o kv[req.key].val \o <<"\n">>

\* the entry of name is the same in fs1 and fs2
SameEntry(fs1, fs2, name) ==
    /\ name \in DOMAIN fs1 <=> name \in DOMAIN fs2
    /\ name \in DOMAIN fs1 => fs1[name] = fs2[name]

\* a step changes storage only when it runs an accepted SET or DEL with a
\* valid key, and then no entry but that of the request's key
C20_Step ==
    LET writes == /\ pc = "run"
                  /\ req.cmd \in {"CMD_SET", "CMD_DEL"}
                  /\ \A i \in 1..Len(req.key) :
                         req.key[i] \notin {"/", "\\", ".", " "}
                  /\ req.key # <<>>
    IN  /\ ~writes => files' = files
        /\ writes =>
               \A name \in DOMAIN files \cup DOMAIN files' :
                   name # req.key => SameEntry(files, files', name)

\* C20: a SET or DEL on key k changes at most the storage entry of k; a GET,
\* a request rejected by parse_request, a request with an invalid key and a
\* connection whose read failed leave the whole storage unchanged.
C20_Frame == [][C20_Step]_vars

\* a DEL has removed its key and left the file of another key in place
C20_Witness ==
    /\ pc = "write"
    /\ req.cmd = "CMD_DEL"
    /\ outcome = "served"
    /\ req.key \in everSet
    /\ req.key \notin DOMAIN files
    /\ \E name \in DOMAIN files : name # req.key

=============================================================================
